---- MODULE Spec2Model ----
(***************************************************************************)
(* Matchmaking engine of langapp-backend: the shared state store (Redis    *)
(* lists, hashes and sets), queue admission and cancellation, the hold     *)
(* protocol and the per-language matcher workers.                          *)
(*                                                                         *)
(* Grain of atomicity: one Redis command is one step; a go-redis pipeline  *)
(* (pipe.Exec) is one step, as the code's comments intend ("Atomically").  *)
(* A worker's receive from its Go channel is local and is merged with the  *)
(* first store command that follows it.                                    *)
(*                                                                         *)
(* InitiateMatchmaking and CancelMatchmaking are declared in               *)
(* src/unnamed/part_001:12-15 and called from src/api/matchmaking.go, but  *)
(* their bodies are not among the sources (src/matchmaking/queue.go is an  *)
(* earlier generation that keeps whole entries in the queue and no         *)
(* users:data hash, which putUserOnHold could not read). They are modelled *)
(* from section 4.2 of the specification.                                  *)
(***************************************************************************)
EXTENDS Integers, Sequences, FiniteSets, TLC

\* ---------------------------------------------------------------- universe
Users == {"u1", "u2", "u3"}
Langs == {"English", "Spanish", "French"}
\* processes of the service that share the store
Instances == {1, 2}
\* the languages the second process is started with
SecondLanguages == {"English"}

\* the admission requests the clients may send: user, native, practice
Requests == { <<"u1", "Spanish", "English">>, <<"u1", "English", "Spanish">>,
              <<"u2", "English", "Spanish">>, <<"u3", "French", "English">> }

\* the rows of the languages table: name and short_name, all active
Catalog == { [Name |-> "English", ShortName |-> "EN"],
             [Name |-> "Spanish", ShortName |-> "ES"],
             [Name |-> "French", ShortName |-> "FR"] }
\* the language strings a request body may carry
RawLanguages == {"English", "english", "Spanish", "EN", "en", "Klingon", ""}
\* the POST /queue bodies the clients may send: user_id, native_language,
\* practice_language
ApiRequests == { <<"u1", "Spanish", "English">>, <<"u2", "English", "Spanish">>,
                 <<"u3", "Spanish", "EN">>,
                 <<"u1", "English", "English">>, <<"u1", "English", "english">>,
                 <<"u2", "EN", "en">>,
                 <<"u2", "Klingon", "English">>, <<"u2", "English", "Klingon">>,
                 <<"u3", "english", "Spanish">>, <<"u3", "", "English">> }
\* the DELETE /queue bodies: user_id, practice_language
ApiCancels == { <<"u1", "English">>, <<"u2", "Spanish">>, <<"u3", "EN">>,
                <<"u1", "Klingon">>, <<"u2", "">> }
\* the list keys queue:<string> a request can name
QueueKeys == Langs \cup (RawLanguages \ {""})

\* bounds of the exploration
MaxAdmits == 3
MaxSessionFailures == 1
MaxDisturbances == 1

NoEntry == [user |-> "", native |-> "", practice |-> "", ts |-> 0]
\* bound of the exploration: the clients HandleWebSocket creates
MaxClients == 2
ClientIds == 1..MaxClients
\* a Client that was not created yet
NoClient == [ID |-> "", pc |-> "none", conn |-> "closed", send |-> "closed",
             full |-> FALSE, writer |-> "none"]
MaxSenders == 2
\* holdTTL in ticks of the clock of the store
holdTTL == 2
\* the goroutines that call Manager.SendMessage
SenderIds == 1..MaxSenders
\* a caller of SendMessage outside the call
IdleSender == [pc |-> "idle", userID |-> "", client |-> 0]
NoTrip == [phase |-> "none", user |-> "", before |-> <<>>, after |-> <<>>, status |-> 0,
           msg |-> ""]

WorkerIds == Instances \X Langs
LangOf(w) == w[2]

VARIABLES
    queue,       \* queue:<language>  : list of user ids
    usersData,   \* users:data        : hash user id -> waiter entry
    holdSet,     \* hold:<language>   : set of user ids (one TTL per key)
    holdData,    \* hold:data:<user>  : hash with the field "data"
    topic,       \* matchmaking:<language>, one delivery buffer per subscriber
    active,      \* the workers that were started and subscribed
    wk,          \* each worker's position and locals
    req,         \* each user's admission between its purge and its write
    sessions,    \* rows of the sessions table
    clock,       \* time.Now() at admission, as the admission count
    nFail,       \* session-creation failures so far
    nDisturb,    \* cancels, TTL expiries and store errors so far
    cancelled,   \* history: "no" | "clean" | "raced" since the user's last cancel
    trouble,     \* history: a failure, expiry, store error, cancel or purge happened
    restores,    \* history: the outcome of every restoreUserFromHold
    rt,          \* history: an admit with the cancel that directly follows it
    clients,     \* Manager.clients : user id -> registered client (0: none)
    conns,       \* every Client made by HandleWebSocket, with its goroutines
    crashed,     \* the process has panicked
    sent,        \* history: every SendMessage call with its outcome
    mutex,       \* Manager.mutex : the goroutine with Lock and those with RLock
    start,       \* Manager.Start : its position in the select loop
    snd,         \* each caller of SendMessage : its position and locals
    ttl          \* the time to live left to hold:<language> and hold:data:<user>

store == <<queue, usersData, holdSet, holdData>>
lockVars == <<mutex, start, snd>>
pushVars == <<clients, conns, crashed, sent, mutex, start, snd>>
matchVars == <<queue, usersData, holdSet, holdData, topic, active, wk, req,
               sessions, clock, nFail, nDisturb, cancelled, trouble, restores, rt,
               ttl>>
vars == <<queue, usersData, holdSet, holdData, topic, active, wk, req,
          sessions, clock, nFail, nDisturb, cancelled, trouble, restores, rt,
          clients, conns, crashed, sent, mutex, start, snd, ttl>>

\* ------------------------------------------------------- store primitives
\* the times to live t after a step that left the hold sets hs and the hold
\* data hd: a key that is gone (deleted, or a set emptied by SREM) has none,
\* and no other command touches the time to live of a key
TtlKept(t, hs, hd) ==
    [set  |-> [l \in Langs |-> IF hs[l] = {} THEN 0 ELSE t.set[l]],
     data |-> [u \in Users |-> IF hd[u] = NoEntry THEN 0 ELSE t.data[u]]]
\* LREM key 0 value: remove every occurrence
LRemAll(s, v) == SelectSeq(s, LAMBDA x : x # v)
\* LPUSH key value
LPush(s, v) == <<v>> \o s
\* the push at the wrong end: LPUSH where RPUSH is meant
RPushAtHead(s, v) == <<v>> \o s
\* RPUSH key value
RPush(s, v) == Append(s, v)
\* number of occurrences of v in the list s
Count(s, v) == Cardinality({i \in DOMAIN s : s[i] = v})
\* occurrences of u over the queues q and the hold sets h of the languages S
RECURSIVE OccursIn(_, _, _, _)
OccursIn(q, h, u, S) ==
    IF S = {} THEN 0
    ELSE LET l == CHOOSE x \in S : TRUE
         IN Count(q[l], u) + (IF u \in h[l] THEN 1 ELSE 0) + OccursIn(q, h, u, S \ {l})
Occurrences(u) == OccursIn(queue, holdSet, u, Langs)
QueueOccurrences(u) == OccursIn(queue, [l \in Langs |-> {}], u, Langs)

IdleWorker == [pc |-> "idle", nativeEntry |-> NoEntry, userID |-> "",
               userIDFromQueue |-> "", practiceEntry |-> NoEntry]

\* a matcher has popped u and has not yet finished with it
TakenBy(w, u) ==
    \/ /\ wk[w].pc \in {"fetch", "hold", "create", "release", "restore",
                        "restorePipe", "scrub"}
       /\ wk[w].userID = u
    \/ /\ wk[w].pc = "pushback"
       /\ wk[w].userIDFromQueue = u
Taken(u) == \E w \in WorkerIds : TakenBy(w, u)
\* a matcher is past its pop, either with u as the popped waiter or for a
\* message that u's admission published
Engaged(u) ==
    \/ Taken(u)
    \/ \E w \in WorkerIds : /\ wk[w].pc \notin {"idle", "pop"}
                            /\ wk[w].nativeEntry.user = u

\* ------------------------------------------------------------------- Init
InitCommon ==
    /\ queue = [l \in QueueKeys |-> <<>>]
    /\ usersData = [u \in Users |-> NoEntry]
    /\ holdSet = [l \in Langs |-> {}]
    /\ holdData = [u \in Users |-> NoEntry]
    /\ topic = [w \in WorkerIds |-> <<>>]
    /\ wk = [w \in WorkerIds |-> IdleWorker]
    /\ req = [u \in Users |-> NoEntry]
    /\ sessions = {}
    /\ clock = 0
    /\ nFail = 0
    /\ nDisturb = 0
    /\ cancelled = [u \in Users |-> "no"]
    /\ trouble = FALSE
    /\ restores = {}
    /\ rt = NoTrip
    /\ clients = [u \in Users |-> 0]
    /\ conns = [c \in ClientIds |-> NoClient]
    /\ crashed = FALSE
    /\ sent = {}
    /\ mutex = [writer |-> "none", readers |-> {}]
    /\ start = [pc |-> "select", client |-> 0]
    /\ snd = [g \in SenderIds |-> IdleSender]
    /\ ttl = [set |-> [l \in Langs |-> 0], data |-> [u \in Users |-> 0]]

\* one process: Start launches one goroutine per supported language
Init == InitCommon /\ active = {w \in WorkerIds : w[1] = 1}
\* a second process, started for SecondLanguages, shares the store
InitMulti == InitCommon /\ active = {w \in WorkerIds : w[1] = 1 \/ w[2] \in SecondLanguages}

\* -------------------------------------------------------------- admission
\* the purge of a prior presence: remove the id from the queue of the recorded
\* practice language (the user-data is deleted in the same batch)
PurgeOp(q, u, old) ==
    IF old = NoEntry THEN q
    ELSE [q EXCEPT ![old.practice] = LRemAll(@, u)]

\* the PUBLISH that reaches the subscribers of every channel
PublishEverywhere(t, l, e) ==
    [w \in WorkerIds |-> IF w \in active THEN Append(t[w], e) ELSE t[w]]
\* PUBLISH fans the message out to every subscriber of the channel
Publish(t, l, e) ==
    [w \in WorkerIds |-> IF w \in active /\ LangOf(w) = l THEN Append(t[w], e) ELSE t[w]]

CanAdmit(u) ==
    /\ req[u] = NoEntry
    /\ clock + Cardinality({x \in Users : req[x] # NoEntry}) < MaxAdmits

\* the write batch without its append to the queue
WriteEntryNoQueue(u, n, p) ==
    LET e == [user |-> u, native |-> n, practice |-> p, ts |-> clock + 1]
    IN /\ usersData' = [usersData EXCEPT ![u] = e]
       /\ queue' = queue
       /\ topic' = Publish(topic, n, e)
       /\ clock' = clock + 1
\* steps 4-6 of admit: build the entry with queued_at = now, then the write
\* batch: user-data, append to queue[practice], publish on topic[native]
WriteEntry(u, n, p) ==
    LET e == [user |-> u, native |-> n, practice |-> p, ts |-> clock + 1]
    IN /\ usersData' = [usersData EXCEPT ![u] = e]
       /\ queue' = [queue EXCEPT ![p] = RPush(@, u)]
       /\ topic' = Publish(topic, n, e)
       /\ clock' = clock + 1

\* admit of a user without user-data: the purge of step 3 finds nothing and
\* changes nothing, so the admission is its write batch
InitiateMatchmaking(u, n, p) ==
    /\ CanAdmit(u)
    /\ n # p
    /\ usersData[u] = NoEntry
    /\ WriteEntry(u, n, p)
    /\ cancelled' = [cancelled EXCEPT ![u] = "no"]
    /\ rt' = [phase |-> "admitted", user |-> u, before |-> store, after |-> <<>>,
              status |-> 201, msg |-> ""]
    /\ UNCHANGED <<holdSet, holdData, active, wk, req, sessions, nFail, nDisturb,
                   trouble, restores>>
    /\ UNCHANGED <<pushVars, ttl>>

\* admit of a user with user-data, steps 1-3: validation and the purge batch
InitiateMatchmaking_Purge(u, n, p) ==
    /\ CanAdmit(u)
    /\ n # p
    /\ usersData[u] # NoEntry
    /\ queue' = PurgeOp(queue, u, usersData[u])
    /\ usersData' = [usersData EXCEPT ![u] = NoEntry]
    /\ req' = [req EXCEPT ![u] = [user |-> u, native |-> n, practice |-> p, ts |-> 0]]
    /\ cancelled' = [cancelled EXCEPT ![u] = "no"]
    /\ trouble' = TRUE
    /\ rt' = [phase |-> "purged", user |-> u, before |-> store, after |-> <<>>,
              status |-> 0, msg |-> ""]
    /\ UNCHANGED <<holdSet, holdData, topic, active, wk, sessions, clock, nFail,
                   nDisturb, restores>>
    /\ UNCHANGED <<pushVars, ttl>>

\* admit of a user with user-data, steps 4-6
InitiateMatchmaking_Write(u) ==
    /\ req[u] # NoEntry
    /\ WriteEntry(u, req[u].native, req[u].practice)
    /\ req' = [req EXCEPT ![u] = NoEntry]
    /\ rt' = IF rt.phase = "purged" /\ rt.user = u
             THEN [rt EXCEPT !.phase = "admitted", !.status = 201] ELSE NoTrip
    /\ UNCHANGED <<holdSet, holdData, active, wk, sessions, nFail, nDisturb,
                   cancelled, trouble, restores>>
    /\ UNCHANGED <<pushVars, ttl>>

\* the removal from the queue of the native language instead
CancelOpNativeQueue(q, u, old) == [q EXCEPT ![old.native] = LRemAll(@, u)]
\* remove-by-value, all occurrences, from the queue of the recorded practice
\* language
CancelOp(q, u, old) == [q EXCEPT ![old.practice] = LRemAll(@, u)]

\* cancel of a user with user-data: remove the id by value from the queue of
\* the recorded practice language and delete the user-data, in one batch.
\* (A cancel that finds no user-data returns ok and changes nothing: it is a
\* stuttering step.)
CancelMatchmaking(u) ==
    /\ req[u] = NoEntry
    /\ usersData[u] # NoEntry
    /\ nDisturb < MaxDisturbances
    /\ nDisturb' = nDisturb + 1
    /\ queue' = CancelOp(queue, u, usersData[u])
    /\ usersData' = [usersData EXCEPT ![u] = NoEntry]
    /\ cancelled' = [cancelled EXCEPT ![u] = IF Engaged(u) THEN "raced" ELSE "clean"]
    /\ trouble' = TRUE
    /\ UNCHANGED <<holdSet, holdData, topic, active, wk, req, sessions, clock,
                   nFail, restores>>
    /\ rt' = IF rt.phase = "admitted" /\ rt.user = u
             THEN [rt EXCEPT !.phase = "done", !.status = 200,
                             !.after = <<queue', usersData', holdSet', holdData'>>]
             ELSE NoTrip
    /\ UNCHANGED <<pushVars, ttl>>

\* ----------------------------------------------------------- hold protocol
\* the worker that queues the notifier when it finds the queue empty
findMatchQueuesNotifier(w) ==
    /\ w \in active
    /\ wk[w].pc = "idle"
    /\ topic[w] # <<>>
    /\ LET nativeEntry == Head(topic[w])
           language == nativeEntry.native
       IN /\ wk' = [wk EXCEPT ![w] =
                       IF queue[language] = <<>> THEN IdleWorker
                       ELSE [IdleWorker EXCEPT !.pc = "pop", !.nativeEntry = nativeEntry,
                                               !.userID = Head(queue[language])]]
          /\ queue' = IF queue[language] = <<>>
                      THEN [queue EXCEPT ![language] = RPush(@, nativeEntry.user)]
                      ELSE queue
    /\ topic' = [topic EXCEPT ![w] = Tail(@)]
    /\ rt' = NoTrip
    /\ UNCHANGED <<usersData, holdSet, holdData, active, req, sessions, clock, nFail,
                   nDisturb, cancelled, trouble, restores>>
    /\ UNCHANGED <<pushVars, ttl>>

\* findMatch: the worker takes the next message of its channel and peeks the
\* head of queue:<native language of the message> with LINDEX 0
findMatch(w) ==
    /\ w \in active
    /\ wk[w].pc = "idle"
    /\ topic[w] # <<>>
    /\ LET nativeEntry == Head(topic[w])
           language == nativeEntry.native
       IN wk' = [wk EXCEPT ![w] =
                    IF queue[language] = <<>> THEN IdleWorker
                    ELSE [IdleWorker EXCEPT !.pc = "pop", !.nativeEntry = nativeEntry,
                                            !.userID = Head(queue[language])]]
    /\ topic' = [topic EXCEPT ![w] = Tail(@)]
    /\ rt' = NoTrip
    /\ UNCHANGED <<store, active, req, sessions, clock, nFail, nDisturb,
                   cancelled, trouble, restores>>
    /\ UNCHANGED <<pushVars, ttl>>

\* putUserOnHold: LPOP, then the comparison with the expected user
putUserOnHold_LPop(w) ==
    /\ wk[w].pc = "pop"
    /\ LET language == wk[w].nativeEntry.native
       IN IF queue[language] = <<>>
          THEN /\ wk' = [wk EXCEPT ![w] = IdleWorker]
               /\ queue' = queue
          ELSE LET userIDFromQueue == Head(queue[language])
               IN /\ queue' = [queue EXCEPT ![language] = Tail(@)]
                  /\ wk' = [wk EXCEPT ![w].userIDFromQueue = userIDFromQueue,
                                      ![w].pc = IF userIDFromQueue # wk[w].userID
                                                THEN "pushback" ELSE "fetch"]
    /\ rt' = NoTrip
    /\ UNCHANGED <<usersData, holdSet, holdData, topic, active, req, sessions,
                   clock, nFail, nDisturb, cancelled, trouble, restores>>
    /\ UNCHANGED <<pushVars, ttl>>

\* putUserOnHold: LPUSH of the popped id after a mismatch, a missing
\* user-data entry or a failed hold batch; the call then returns its error
putUserOnHold_LPush(w) ==
    /\ wk[w].pc = "pushback"
    /\ queue' = [queue EXCEPT ![wk[w].nativeEntry.native] = LPush(@, wk[w].userIDFromQueue)]
    /\ wk' = [wk EXCEPT ![w] = IdleWorker]
    /\ rt' = NoTrip
    /\ UNCHANGED <<usersData, holdSet, holdData, topic, active, req, sessions,
                   clock, nFail, nDisturb, cancelled, trouble, restores>>
    /\ UNCHANGED <<pushVars, ttl>>

\* putUserOnHold: the LPUSH fails; the warning is printed and the id is lost
putUserOnHold_LPushFails(w) ==
    /\ wk[w].pc = "pushback"
    /\ nDisturb < MaxDisturbances
    /\ nDisturb' = nDisturb + 1
    /\ trouble' = TRUE
    /\ wk' = [wk EXCEPT ![w] = IdleWorker]
    /\ rt' = NoTrip
    /\ UNCHANGED <<store, topic, active, req, sessions, clock, nFail, cancelled,
                   restores>>
    /\ UNCHANGED <<pushVars, ttl>>

\* putUserOnHold: HGET users:data <userID>
putUserOnHold_HGet(w) ==
    /\ wk[w].pc = "fetch"
    /\ wk' = [wk EXCEPT ![w].practiceEntry = usersData[wk[w].userID],
                        ![w].pc = IF usersData[wk[w].userID] = NoEntry
                                  THEN "pushback" ELSE "hold"]
    /\ rt' = NoTrip
    /\ UNCHANGED <<store, topic, active, req, sessions, clock, nFail, nDisturb,
                   cancelled, trouble, restores>>
    /\ UNCHANGED <<pushVars, ttl>>

\* putUserOnHold: the pipeline SADD, EXPIRE, HSET, EXPIRE
HoldOp(hs, language, userID) == [hs EXCEPT ![language] = @ \cup {userID}]

putUserOnHold_Exec(w) ==
    /\ wk[w].pc = "hold"
    /\ holdSet' = HoldOp(holdSet, wk[w].nativeEntry.native, wk[w].userID)
    /\ holdData' = [holdData EXCEPT ![wk[w].userID] = wk[w].practiceEntry]
    /\ wk' = [wk EXCEPT ![w].pc = "create"]
    /\ rt' = NoTrip
    /\ UNCHANGED <<queue, usersData, topic, active, req, sessions, clock, nFail,
                   nDisturb, cancelled, trouble, restores>>
    /\ UNCHANGED pushVars
    /\ ttl' = [set |-> [ttl.set EXCEPT ![wk[w].nativeEntry.native] = holdTTL],
               data |-> [ttl.data EXCEPT ![wk[w].userID] = holdTTL]]

\* putUserOnHold: pipe.Exec returns an error
putUserOnHold_ExecFails(w) ==
    /\ wk[w].pc = "hold"
    /\ nDisturb < MaxDisturbances
    /\ nDisturb' = nDisturb + 1
    /\ trouble' = TRUE
    /\ wk' = [wk EXCEPT ![w].pc = "pushback"]
    /\ rt' = NoTrip
    /\ UNCHANGED <<store, topic, active, req, sessions, clock, nFail, cancelled,
                   restores>>
    /\ UNCHANGED <<pushVars, ttl>>

\* holdTTL: the key hold:<language> reaches its TTL and the whole set goes
ExpireHoldSet(l) ==
    /\ holdSet[l] # {}
    /\ nDisturb < MaxDisturbances
    /\ nDisturb' = nDisturb + 1
    /\ trouble' = TRUE
    /\ holdSet' = [holdSet EXCEPT ![l] = {}]
    /\ rt' = NoTrip
    /\ UNCHANGED <<queue, usersData, holdData, topic, active, wk, req, sessions,
                   clock, nFail, cancelled, restores>>
    /\ UNCHANGED pushVars
    /\ ttl' = TtlKept(ttl, holdSet', holdData')

\* holdTTL: the key hold:data:<user> reaches its TTL
ExpireHoldData(u) ==
    /\ holdData[u] # NoEntry
    /\ nDisturb < MaxDisturbances
    /\ nDisturb' = nDisturb + 1
    /\ trouble' = TRUE
    /\ holdData' = [holdData EXCEPT ![u] = NoEntry]
    /\ rt' = NoTrip
    /\ UNCHANGED <<queue, usersData, holdSet, topic, active, wk, req, sessions,
                   clock, nFail, cancelled, restores>>
    /\ UNCHANGED pushVars
    /\ ttl' = TtlKept(ttl, holdSet', holdData')

\* ------------------------------------------------------------ push fabric
\* Manager.SendMessage(userID, message) on the registry cl and the clients cn.
\* The buffered channel client.send is abstracted to whether it has room;
\* fills says whether this message takes its last slot. outcome is the branch
\* taken, returned is the error value the caller gets.
SendMessageOp(cl, cn, userID, fills) ==
    LET c == cl[userID]
    IN IF c = 0
       THEN [clients |-> cl, conns |-> cn, panic |-> FALSE,
             outcome |-> "no_client", returned |-> "nil"]
       ELSE IF cn[c].send = "closed"
       THEN [clients |-> cl, conns |-> cn, panic |-> TRUE,
             outcome |-> "send_on_closed", returned |-> "none"]
       ELSE IF ~cn[c].full
       THEN [clients |-> cl, conns |-> [cn EXCEPT ![c].full = fills], panic |-> FALSE,
             outcome |-> "queued", returned |-> "nil"]
       ELSE [clients |-> [cl EXCEPT ![userID] = 0],
             conns |-> [cn EXCEPT ![c].send = "closed"], panic |-> FALSE,
             outcome |-> "evicted", returned |-> "nil"]

\* the entry of the history for one SendMessage call
SentRecord(caller, to, data, r, cl) ==
    [caller |-> caller, to |-> to, data |-> data, outcome |-> r.outcome,
     returned |-> r.returned, bound |-> cl[to] # 0,
     evicted |-> r.clients[to] = 0 /\ cl[to] # 0,
     sendOpen |-> IF cl[to] = 0 THEN FALSE ELSE r.conns[cl[to]].send = "open"]

\* ----------------------------------------------------------------- commit
\* the row CreateSession inserts, with the facts of the moment of the commit
SessionRow(nativeEntry, practiceEntry) ==
    LET language == nativeEntry.native
    IN [id               |-> Cardinality(sessions) + 1,
        practice_user_id |-> practiceEntry.user,
        native_user_id   |-> nativeEntry.user,
        language         |-> language,
        practiceEntry    |-> practiceEntry,
        nativeEntry      |-> nativeEntry,
        practiceCancel   |-> cancelled[practiceEntry.user],
        nativeCancel     |-> cancelled[nativeEntry.user],
        untroubled       |-> ~trouble,
        olderWaiting     |-> \/ \E i \in DOMAIN queue[language] :
                                   LET a == usersData[queue[language][i]]
                                   IN a # NoEntry /\ a.ts < practiceEntry.ts
                             \/ \E v \in WorkerIds :
                                   /\ wk[v].pc \in {"hold", "create", "restore",
                                                   "restorePipe"}
                                   /\ wk[v].nativeEntry.native = language
                                   /\ wk[v].practiceEntry.ts < practiceEntry.ts,
        youngerWaiting   |-> \E i \in DOMAIN queue[language] :
                                LET a == usersData[queue[language][i]]
                                IN a # NoEntry /\ a.ts > practiceEntry.ts]

\* initializeSession: CreateSession succeeds; the two notifications are sent
initializeSession(w) ==
    /\ wk[w].pc = "create"
    /\ ~crashed
    /\ sessions' = sessions \cup {SessionRow(wk[w].nativeEntry, wk[w].practiceEntry)}
    /\ \E fills1, fills2 \in BOOLEAN :
          LET nativeEntry == wk[w].nativeEntry
              practiceEntry == wk[w].practiceEntry
              language == nativeEntry.native
              id == Cardinality(sessions) + 1
              practiceUserMessage == [Type |-> "match_found", PartnerID |-> nativeEntry.user,
                                      Language |-> language, Message |-> "practice"]
              nativeUserMessage == [Type |-> "match_found", PartnerID |-> practiceEntry.user,
                                    Language |-> language, Message |-> "help"]
              r1 == SendMessageOp(clients, conns, practiceEntry.user, fills1)
              r2 == SendMessageOp(r1.clients, r1.conns, practiceEntry.user, fills2)
          IN /\ (clients[practiceEntry.user] = 0) => (~fills1 /\ ~fills2)
             /\ clients' = r2.clients
             /\ conns' = r2.conns
             /\ crashed' = (r1.panic \/ r2.panic)
             /\ sent' = sent \cup
                   { SentRecord(id, practiceEntry.user, practiceUserMessage, r1, clients),
                     SentRecord(id, practiceEntry.user, nativeUserMessage, r2, r1.clients) }
    /\ wk' = [wk EXCEPT ![w].pc = "release"]
    /\ rt' = NoTrip
    /\ UNCHANGED <<store, topic, active, req, clock, nFail, nDisturb, cancelled,
                   trouble, restores>>
    /\ UNCHANGED <<lockVars, ttl>>

\* the failed CreateSession that goes on to the release of the hold
initializeSession_FailsThenRelease(w) ==
    /\ wk[w].pc = "create"
    /\ nFail < MaxSessionFailures
    /\ nFail' = nFail + 1
    /\ trouble' = TRUE
    /\ wk' = [wk EXCEPT ![w].pc = "release"]
    /\ rt' = NoTrip
    /\ UNCHANGED <<store, topic, active, req, sessions, clock, nDisturb,
                   cancelled, restores>>
    /\ UNCHANGED <<pushVars, ttl>>

\* initializeSession: CreateSession returns an error
initializeSession_Fails(w) ==
    /\ wk[w].pc = "create"
    /\ nFail < MaxSessionFailures
    /\ nFail' = nFail + 1
    /\ trouble' = TRUE
    /\ wk' = [wk EXCEPT ![w].pc = "restore"]
    /\ rt' = NoTrip
    /\ UNCHANGED <<store, topic, active, req, sessions, clock, nDisturb,
                   cancelled, restores>>
    /\ UNCHANGED <<pushVars, ttl>>

\* the release without its SREM
releaseUserFromHoldKeepsSet(w) ==
    /\ wk[w].pc = "release"
    /\ LET userID == wk[w].practiceEntry.user
       IN /\ holdData' = [holdData EXCEPT ![userID] = NoEntry]
          /\ usersData' = [usersData EXCEPT ![userID] = NoEntry]
    /\ wk' = [wk EXCEPT ![w] = IdleWorker]
    /\ rt' = NoTrip
    /\ UNCHANGED <<queue, holdSet, topic, active, req, sessions, clock, nFail,
                   nDisturb, cancelled, trouble, restores>>
    /\ UNCHANGED pushVars
    /\ ttl' = TtlKept(ttl, holdSet', holdData')

\* releaseUserFromHold: the pipeline SREM, DEL, HDEL
releaseUserFromHold(w) ==
    /\ wk[w].pc = "release"
    /\ LET userID == wk[w].practiceEntry.user
           language == wk[w].nativeEntry.native
       IN /\ holdSet' = [holdSet EXCEPT ![language] = @ \ {userID}]
          /\ holdData' = [holdData EXCEPT ![userID] = NoEntry]
          /\ usersData' = [usersData EXCEPT ![userID] = NoEntry]
    /\ wk' = [wk EXCEPT ![w] = IdleWorker]
    /\ rt' = NoTrip
    /\ UNCHANGED <<queue, topic, active, req, sessions, clock, nFail, nDisturb,
                   cancelled, trouble, restores>>
    /\ UNCHANGED pushVars
    /\ ttl' = TtlKept(ttl, holdSet', holdData')

\* releaseUserFromHold: pipe.Exec returns an error, which is logged
releaseUserFromHold_Fails(w) ==
    /\ wk[w].pc = "release"
    /\ nDisturb < MaxDisturbances
    /\ nDisturb' = nDisturb + 1
    /\ trouble' = TRUE
    /\ wk' = [wk EXCEPT ![w] = IdleWorker]
    /\ rt' = NoTrip
    /\ UNCHANGED <<store, topic, active, req, sessions, clock, nFail, cancelled,
                   restores>>
    /\ UNCHANGED <<pushVars, ttl>>

\* restoreUserFromHold: HGET hold:data:<user> data
restoreUserFromHold_HGet(w) ==
    /\ wk[w].pc = "restore"
    /\ wk' = [wk EXCEPT ![w].pc = IF holdData[wk[w].practiceEntry.user] = NoEntry
                                  THEN "scrub" ELSE "restorePipe"]
    /\ rt' = NoTrip
    /\ UNCHANGED <<store, topic, active, req, sessions, clock, nFail, nDisturb,
                   cancelled, trouble, restores>>
    /\ UNCHANGED <<pushVars, ttl>>

\* what a finished restore of userID for language left behind
RestoreOutcome(w, hadHoldData, batchOk) ==
    LET userID == wk[w].practiceEntry.user
        language == wk[w].nativeEntry.native
    IN [user |-> userID, language |-> language, hadHoldData |-> hadHoldData,
        batchOk |-> batchOk,
        queuedAfter |-> Count(queue'[language], userID) > 0,
        heldAfter |-> userID \in holdSet'[language] \/ holdData'[userID] # NoEntry]

\* the scrub that also puts the id at the tail of the queue
restoreUserFromHold_SRemRequeues(w) ==
    /\ wk[w].pc = "scrub"
    /\ holdSet' = [holdSet EXCEPT ![wk[w].nativeEntry.native] = @ \ {wk[w].practiceEntry.user}]
    /\ queue' = [queue EXCEPT ![wk[w].nativeEntry.native] = RPush(@, wk[w].practiceEntry.user)]
    /\ wk' = [wk EXCEPT ![w] = IdleWorker]
    /\ UNCHANGED <<usersData, holdData>>
    /\ restores' = restores \cup {RestoreOutcome(w, FALSE, TRUE)}
    /\ rt' = NoTrip
    /\ UNCHANGED <<topic, active, req, sessions, clock, nFail, nDisturb,
                   cancelled, trouble>>
    /\ UNCHANGED pushVars
    /\ ttl' = TtlKept(ttl, holdSet', holdData')

\* restoreUserFromHold: the hold data is missing, SREM only
restoreUserFromHold_SRem(w) ==
    /\ wk[w].pc = "scrub"
    /\ holdSet' = [holdSet EXCEPT ![wk[w].nativeEntry.native] = @ \ {wk[w].practiceEntry.user}]
    /\ wk' = [wk EXCEPT ![w] = IdleWorker]
    /\ UNCHANGED <<queue, usersData, holdData>>
    /\ restores' = restores \cup {RestoreOutcome(w, FALSE, TRUE)}
    /\ rt' = NoTrip
    /\ UNCHANGED <<topic, active, req, sessions, clock, nFail, nDisturb,
                   cancelled, trouble>>
    /\ UNCHANGED pushVars
    /\ ttl' = TtlKept(ttl, holdSet', holdData')

\* restoreUserFromHold: the pipeline RPUSH, SREM, DEL
\* the restore batch without its RPUSH
RestoreQueueOpNoPush(q, language, userID) == q
\* the restore batch with LPUSH in the place of its RPUSH
RestoreQueueOpAtHead(q, language, userID) == [q EXCEPT ![language] = LPush(@, userID)]
\* RPUSH queue:<language> <userID>: the waiter re-enters at the tail
RestoreQueueOp(q, language, userID) == [q EXCEPT ![language] = RPush(@, userID)]

restoreUserFromHold_Exec(w) ==
    /\ wk[w].pc = "restorePipe"
    /\ LET userID == wk[w].practiceEntry.user
           language == wk[w].nativeEntry.native
       IN /\ queue' = RestoreQueueOp(queue, language, userID)
          /\ holdSet' = [holdSet EXCEPT ![language] = @ \ {userID}]
          /\ holdData' = [holdData EXCEPT ![userID] = NoEntry]
    /\ wk' = [wk EXCEPT ![w] = IdleWorker]
    /\ UNCHANGED usersData
    /\ restores' = restores \cup {RestoreOutcome(w, TRUE, TRUE)}
    /\ rt' = NoTrip
    /\ UNCHANGED <<topic, active, req, sessions, clock, nFail, nDisturb,
                   cancelled, trouble>>
    /\ UNCHANGED pushVars
    /\ ttl' = TtlKept(ttl, holdSet', holdData')

\* restoreUserFromHold: pipe.Exec returns an error, which is logged
restoreUserFromHold_ExecFails(w) ==
    /\ wk[w].pc = "restorePipe"
    /\ nDisturb < MaxDisturbances
    /\ nDisturb' = nDisturb + 1
    /\ trouble' = TRUE
    /\ wk' = [wk EXCEPT ![w] = IdleWorker]
    /\ UNCHANGED store
    /\ restores' = restores \cup {RestoreOutcome(w, TRUE, FALSE)}
    /\ rt' = NoTrip
    /\ UNCHANGED <<topic, active, req, sessions, clock, nFail, cancelled>>
    /\ UNCHANGED <<pushVars, ttl>>

\* ------------------------------------------------------------------- Next
Next ==
    \/ \E r \in Requests : InitiateMatchmaking(r[1], r[2], r[3])
    \/ \E r \in Requests : InitiateMatchmaking_Purge(r[1], r[2], r[3])
    \/ \E u \in Users : InitiateMatchmaking_Write(u)
    \/ \E u \in Users : CancelMatchmaking(u)
    \/ \E w \in WorkerIds : findMatch(w)
    \/ \E w \in WorkerIds : putUserOnHold_LPop(w)
    \/ \E w \in WorkerIds : putUserOnHold_LPush(w)
    \/ \E w \in WorkerIds : putUserOnHold_LPushFails(w)
    \/ \E w \in WorkerIds : putUserOnHold_HGet(w)
    \/ \E w \in WorkerIds : putUserOnHold_Exec(w)
    \/ \E w \in WorkerIds : putUserOnHold_ExecFails(w)
    \/ \E l \in Langs : ExpireHoldSet(l)
    \/ \E u \in Users : ExpireHoldData(u)
    \/ \E w \in WorkerIds : initializeSession(w)
    \/ \E w \in WorkerIds : initializeSession_Fails(w)
    \/ \E w \in WorkerIds : releaseUserFromHold(w)
    \/ \E w \in WorkerIds : releaseUserFromHold_Fails(w)
    \/ \E w \in WorkerIds : restoreUserFromHold_HGet(w)
    \/ \E w \in WorkerIds : restoreUserFromHold_SRem(w)
    \/ \E w \in WorkerIds : restoreUserFromHold_Exec(w)
    \/ \E w \in WorkerIds : restoreUserFromHold_ExecFails(w)

Spec == Init /\ [][Next]_vars
SpecMulti == InitMulti /\ [][Next]_vars

\* ---------------------------------------------------- push fabric, actions
\* HandleWebSocket: the upgrade succeeds, the Client is made and handed to
\* the register channel, where the handler waits for Manager.Start
HandleWebSocket(u) ==
    /\ ~crashed
    /\ \E c \in ClientIds :
          /\ conns[c].pc = "none"
          /\ \A d \in ClientIds : d < c => conns[d].pc # "none"
          /\ conns' = [conns EXCEPT ![c] =
                          [ID |-> u, pc |-> "register", conn |-> "open",
                           send |-> "open", full |-> FALSE, writer |-> "none"]]
    /\ UNCHANGED <<clients, crashed, sent, matchVars>>
    /\ UNCHANGED lockVars

\* Manager.Start, case client := <-m.register; the handler then starts
\* writePump and readPump
Start_register(c) ==
    /\ ~crashed
    /\ conns[c].pc = "register"
    /\ clients' = [clients EXCEPT ![conns[c].ID] = c]
    /\ conns' = [conns EXCEPT ![c].pc = "running", ![c].writer = "running"]
    /\ UNCHANGED <<crashed, sent, matchVars>>
    /\ UNCHANGED lockVars

\* readPump: ReadMessage returns an error (the peer went away or the
\* connection was closed); the deferred function waits on m.unregister
readPump_Error(c) ==
    /\ ~crashed
    /\ conns[c].pc = "running"
    /\ conns' = [conns EXCEPT ![c].pc = "unregister"]
    /\ UNCHANGED <<clients, crashed, sent, matchVars>>
    /\ UNCHANGED lockVars

\* Manager.Start, case client := <-m.unregister, and the c.conn.Close() of
\* readPump's deferred function that follows the hand-over
Start_unregister(c) ==
    /\ ~crashed
    /\ conns[c].pc = "unregister"
    /\ IF clients[conns[c].ID] # 0
       THEN IF conns[c].send = "closed"
            THEN \* close of a closed channel
                 /\ crashed' = TRUE
                 /\ clients' = [clients EXCEPT ![conns[c].ID] = 0]
                 /\ UNCHANGED conns
            ELSE /\ clients' = [clients EXCEPT ![conns[c].ID] = 0]
                 /\ conns' = [conns EXCEPT ![c].send = "closed", ![c].conn = "closed",
                                            ![c].pc = "done"]
                 /\ UNCHANGED crashed
       ELSE /\ conns' = [conns EXCEPT ![c].conn = "closed", ![c].pc = "done"]
            /\ UNCHANGED <<clients, crashed>>
    /\ UNCHANGED <<sent, matchVars>>
    /\ UNCHANGED lockVars

\* writePump: one message is taken from c.send and written
writePump_Write(c) ==
    /\ ~crashed
    /\ conns[c].writer = "running"
    /\ conns[c].full
    /\ conns[c].conn = "open"
    /\ conns' = [conns EXCEPT ![c].full = FALSE]
    /\ UNCHANGED <<clients, crashed, sent, matchVars>>
    /\ UNCHANGED lockVars

\* writePump returns, and its deferred c.conn.Close() runs: c.send is closed
\* and drained, or WriteMessage fails on a closed connection
writePump_Return(c) ==
    /\ ~crashed
    /\ conns[c].writer = "running"
    /\ \/ conns[c].send = "closed" /\ ~conns[c].full
       \/ conns[c].full /\ conns[c].conn = "closed"
    /\ conns' = [conns EXCEPT ![c].writer = "done", ![c].conn = "closed"]
    /\ UNCHANGED <<clients, crashed, sent, matchVars>>
    /\ UNCHANGED lockVars

\* Manager.SendMessage called by any of its callers (caller 0)
SendMessage(userID) ==
    /\ ~crashed
    /\ \E fills \in BOOLEAN :
          LET r == SendMessageOp(clients, conns, userID, fills)
          IN /\ fills => r.outcome = "queued"
             /\ clients' = r.clients
             /\ conns' = r.conns
             /\ crashed' = r.panic
             /\ sent' = sent \cup
                   {SentRecord(0, userID, [Type |-> "message"], r, clients)}
    /\ UNCHANGED matchVars
    /\ UNCHANGED lockVars

NextPush ==
    \/ \E u \in Users : HandleWebSocket(u)
    \/ \E c \in ClientIds : Start_register(c)
    \/ \E c \in ClientIds : readPump_Error(c)
    \/ \E c \in ClientIds : Start_unregister(c)
    \/ \E c \in ClientIds : writePump_Write(c)
    \/ \E c \in ClientIds : writePump_Return(c)
    \/ \E u \in Users : SendMessage(u)

\* the push fabric on its own, with any caller of SendMessage
SpecPush == Init /\ [][NextPush]_vars

\* ------------------------------------------------------ request validation
\* unicode.ToLower over the language strings of the requests
ToLower(x) ==
    CASE x = "English" -> "english"
      [] x = "Spanish" -> "spanish"
      [] x = "French" -> "french"
      [] x = "Klingon" -> "klingon"
      [] x = "EN" -> "en"
      [] OTHER -> x
\* strings.EqualFold: equality under simple case folding
EqualFold(a, b) == ToLower(a) = ToLower(b)

\* the lookup that finds every string: no WHERE clause on the name
GetLanguageByNameAny(name) == Catalog
\* SELECT ... FROM languages WHERE (name = $1 OR short_name = $1) AND
\* is_active = true; the empty set is the nil result
GetLanguageByName(name) == {l \in Catalog : l.Name = name \/ l.ShortName = name}

\* the validation without the comparison of the two languages
validateStartMatchmakingRequestNoFold(userID, NativeLanguage, PracticeLanguage) ==
    IF userID = "" \/ NativeLanguage = "" \/ PracticeLanguage = ""
    THEN [ok |-> FALSE, msg |-> "Missing required fields"]
    ELSE IF GetLanguageByName(NativeLanguage) = {}
    THEN [ok |-> FALSE, msg |-> "Invalid native language"]
    ELSE IF GetLanguageByName(PracticeLanguage) = {}
    THEN [ok |-> FALSE, msg |-> "Invalid practice language"]
    ELSE [ok |-> TRUE, msg |-> ""]
validateStartMatchmakingRequest(userID, NativeLanguage, PracticeLanguage) ==
    IF userID = "" \/ NativeLanguage = "" \/ PracticeLanguage = ""
    THEN [ok |-> FALSE, msg |-> "Missing required fields"]
    ELSE IF EqualFold(NativeLanguage, PracticeLanguage)
    THEN [ok |-> FALSE, msg |-> "Native language and practice language cannot be the same"]
    ELSE IF GetLanguageByName(NativeLanguage) = {}
    THEN [ok |-> FALSE, msg |-> "Invalid native language"]
    ELSE IF GetLanguageByName(PracticeLanguage) = {}
    THEN [ok |-> FALSE, msg |-> "Invalid practice language"]
    ELSE [ok |-> TRUE, msg |-> ""]

validateCancelMatchmakingRequest(userID, PracticeLanguage) ==
    IF userID = "" \/ PracticeLanguage = ""
    THEN [ok |-> FALSE, msg |-> "Missing required fields"]
    ELSE IF GetLanguageByName(PracticeLanguage) = {}
    THEN [ok |-> FALSE, msg |-> "Invalid practice language"]
    ELSE [ok |-> TRUE, msg |-> ""]

\* the handler answers with http.Error and returns: nothing but the response
\* is produced
Respond(userID, code, msg) ==
    /\ rt' = [phase |-> "responded", user |-> userID, before |-> store,
              after |-> store, status |-> code, msg |-> msg]
    /\ UNCHANGED <<store, topic, active, wk, req, sessions, clock, nFail, nDisturb,
                   cancelled, trouble, restores>>
    /\ UNCHANGED <<pushVars, ttl>>

\* POST /queue: StartMatchmaking validates the body and calls
\* InitiateMatchmaking; an error of the service is answered with 500
StartMatchmaking(userID, NativeLanguage, PracticeLanguage) ==
    IF ~validateStartMatchmakingRequest(userID, NativeLanguage, PracticeLanguage).ok
    THEN Respond(userID, 400,
                 validateStartMatchmakingRequest(userID, NativeLanguage, PracticeLanguage).msg)
    ELSE IF NativeLanguage = PracticeLanguage
    THEN Respond(userID, 500, "Failed to join queue")
    ELSE \/ InitiateMatchmaking(userID, NativeLanguage, PracticeLanguage)
         \/ InitiateMatchmaking_Purge(userID, NativeLanguage, PracticeLanguage)

\* cancel of a user without user-data: the read finds nothing, ok is returned
CancelMatchmaking_Missing(u) ==
    /\ req[u] = NoEntry
    /\ usersData[u] = NoEntry
    /\ Respond(u, 200, "Successfully removed from matchmaking queue")

\* DELETE /queue: CancelMatchmaking validates the body and calls the
\* service's CancelMatchmaking with the user id
CancelMatchmakingHandler(userID, PracticeLanguage) ==
    IF ~validateCancelMatchmakingRequest(userID, PracticeLanguage).ok
    THEN Respond(userID, 400, validateCancelMatchmakingRequest(userID, PracticeLanguage).msg)
    ELSE \/ CancelMatchmaking_Missing(userID)
         \/ CancelMatchmaking(userID)

\* the request surface in front of the matchmaking service, with the
\* matchers at rest
NextApi ==
    \/ \E r \in ApiRequests : StartMatchmaking(r[1], r[2], r[3])
    \/ \E u \in Users : InitiateMatchmaking_Write(u)
    \/ \E r \in ApiCancels : CancelMatchmakingHandler(r[1], r[2])

SpecApi == Init /\ [][NextApi]_vars

\* ---------------------------------------------- AddToQueue (queue.go:47-69)
\* The admission whose body is among the sources: it keeps the whole entry
\* in the list and issues RPUSH and PUBLISH as two commands. req holds the
\* entry between the two.
\* the entries of the list s
Elements(s) == {s[i] : i \in DOMAIN s}

\* AddToQueue: entry.Timestamp = time.Now(), then RPUSH queue:<practice>
AddToQueue_RPush(u, n, p) ==
    /\ CanAdmit(u)
    /\ LET entry == [user |-> u, native |-> n, practice |-> p, ts |-> clock + 1]
       IN /\ queue' = [queue EXCEPT ![p] = RPush(@, entry)]
          /\ req' = [req EXCEPT ![u] = entry]
    /\ clock' = clock + 1
    /\ rt' = NoTrip
    /\ UNCHANGED <<usersData, holdSet, holdData, topic, active, wk, sessions, nFail,
                   nDisturb, cancelled, trouble, restores>>
    /\ UNCHANGED <<pushVars, ttl>>

\* AddToQueue: the RPUSH returns an error, which is returned
AddToQueue_RPushFails(u, n, p) ==
    /\ CanAdmit(u)
    /\ nDisturb < MaxDisturbances
    /\ nDisturb' = nDisturb + 1
    /\ trouble' = TRUE
    /\ clock' = clock + 1
    /\ rt' = [phase |-> "failed", user |-> u, before |-> store, after |-> store,
              status |-> 500, msg |-> "Failed to join queue"]
    /\ UNCHANGED <<store, topic, active, wk, req, sessions, nFail, cancelled,
                   restores>>
    /\ UNCHANGED <<pushVars, ttl>>

\* AddToQueue: PUBLISH matchmaking:<native>, then return nil
AddToQueue_Publish(u) ==
    /\ req[u] # NoEntry
    /\ topic' = Publish(topic, req[u].native, req[u])
    /\ req' = [req EXCEPT ![u] = NoEntry]
    /\ rt' = [phase |-> "admitted", user |-> u, before |-> store, after |-> store,
              status |-> 201, msg |-> ""]
    /\ UNCHANGED <<store, active, wk, sessions, clock, nFail, nDisturb, cancelled,
                   trouble, restores>>
    /\ UNCHANGED <<pushVars, ttl>>

\* AddToQueue: the PUBLISH returns an error, which is returned; nothing
\* removes what the RPUSH wrote
AddToQueue_PublishFails(u) ==
    /\ req[u] # NoEntry
    /\ nDisturb < MaxDisturbances
    /\ nDisturb' = nDisturb + 1
    /\ trouble' = TRUE
    /\ req' = [req EXCEPT ![u] = NoEntry]
    /\ rt' = [phase |-> "failed", user |-> u, before |-> store, after |-> store,
              status |-> 500, msg |-> "Failed to join queue"]
    /\ UNCHANGED <<store, topic, active, wk, sessions, clock, nFail, cancelled,
                   restores>>
    /\ UNCHANGED <<pushVars, ttl>>

NextQueue ==
    \/ \E r \in Requests : AddToQueue_RPush(r[1], r[2], r[3])
    \/ \E r \in Requests : AddToQueue_RPushFails(r[1], r[2], r[3])
    \/ \E u \in Users : AddToQueue_Publish(u)
    \/ \E u \in Users : AddToQueue_PublishFails(u)

\* the admissions of AddToQueue on their own, the subscribers not reading
SpecQueue == Init /\ [][NextQueue]_vars

\* ------------------------------------------------------------ hold expiry
\* holdTTL as the only source of expiry: every hold key may reach its TTL.
\* The keys exist only after a hold, so the expiries are bounded by the
\* admissions.
holdTTL_HoldSet(l) ==
    /\ holdSet[l] # {}
    /\ trouble' = TRUE
    /\ holdSet' = [holdSet EXCEPT ![l] = {}]
    /\ rt' = NoTrip
    /\ UNCHANGED <<queue, usersData, holdData, topic, active, wk, req, sessions,
                   clock, nFail, nDisturb, cancelled, restores>>
    /\ UNCHANGED pushVars
    /\ ttl' = TtlKept(ttl, holdSet', holdData')

holdTTL_HoldData(u) ==
    /\ holdData[u] # NoEntry
    /\ trouble' = TRUE
    /\ holdData' = [holdData EXCEPT ![u] = NoEntry]
    /\ rt' = NoTrip
    /\ UNCHANGED <<queue, usersData, holdSet, topic, active, wk, req, sessions,
                   clock, nFail, nDisturb, cancelled, restores>>
    /\ UNCHANGED pushVars
    /\ ttl' = TtlKept(ttl, holdSet', holdData')

\* the matchmaking service with expiring holds: a worker gives a hold up when
\* its release or its restore batch fails, and the keys then run out
NextTtl ==
    \/ \E r \in Requests : InitiateMatchmaking(r[1], r[2], r[3])
    \/ \E r \in Requests : InitiateMatchmaking_Purge(r[1], r[2], r[3])
    \/ \E u \in Users : InitiateMatchmaking_Write(u)
    \/ \E u \in Users : CancelMatchmaking(u)
    \/ \E w \in WorkerIds : findMatch(w)
    \/ \E w \in WorkerIds : putUserOnHold_LPop(w)
    \/ \E w \in WorkerIds : putUserOnHold_LPush(w)
    \/ \E w \in WorkerIds : putUserOnHold_HGet(w)
    \/ \E w \in WorkerIds : putUserOnHold_Exec(w)
    \/ \E l \in Langs : holdTTL_HoldSet(l)
    \/ \E u \in Users : holdTTL_HoldData(u)
    \/ \E w \in WorkerIds : initializeSession(w)
    \/ \E w \in WorkerIds : initializeSession_Fails(w)
    \/ \E w \in WorkerIds : releaseUserFromHold(w)
    \/ \E w \in WorkerIds : releaseUserFromHold_Fails(w)
    \/ \E w \in WorkerIds : restoreUserFromHold_HGet(w)
    \/ \E w \in WorkerIds : restoreUserFromHold_SRem(w)
    \/ \E w \in WorkerIds : restoreUserFromHold_Exec(w)
    \/ \E w \in WorkerIds : restoreUserFromHold_ExecFails(w)

SpecTtl == Init /\ [][NextTtl]_vars

\* --------------------------------------------------------------- shutdown
\* main: http.ListenAndServe returns and log.Fatal exits the process (or the
\* process is signalled). The context is context.Background(), no goroutine
\* is waited for: every worker stops where it is and its subscription ends.
main_Exit ==
    /\ active # {}
    /\ active' = {}
    /\ rt' = NoTrip
    /\ UNCHANGED <<store, topic, wk, req, sessions, clock, nFail, nDisturb,
                   cancelled, trouble, restores>>
    /\ UNCHANGED <<pushVars, ttl>>

\* the steps of the process while it runs, without store errors and expiries,
\* and its exit
NextShutdown ==
    \/ \E r \in Requests : active # {} /\ InitiateMatchmaking(r[1], r[2], r[3])
    \/ \E r \in Requests : active # {} /\ InitiateMatchmaking_Purge(r[1], r[2], r[3])
    \/ \E u \in Users : active # {} /\ InitiateMatchmaking_Write(u)
    \/ \E u \in Users : active # {} /\ CancelMatchmaking(u)
    \/ \E w \in WorkerIds : active # {} /\ findMatch(w)
    \/ \E w \in WorkerIds : active # {} /\ putUserOnHold_LPop(w)
    \/ \E w \in WorkerIds : active # {} /\ putUserOnHold_LPush(w)
    \/ \E w \in WorkerIds : active # {} /\ putUserOnHold_HGet(w)
    \/ \E w \in WorkerIds : active # {} /\ putUserOnHold_Exec(w)
    \/ \E w \in WorkerIds : active # {} /\ initializeSession(w)
    \/ \E w \in WorkerIds : active # {} /\ initializeSession_Fails(w)
    \/ \E w \in WorkerIds : active # {} /\ releaseUserFromHold(w)
    \/ \E w \in WorkerIds : active # {} /\ restoreUserFromHold_HGet(w)
    \/ \E w \in WorkerIds : active # {} /\ restoreUserFromHold_SRem(w)
    \/ \E w \in WorkerIds : active # {} /\ restoreUserFromHold_Exec(w)
    \/ main_Exit

\* one process from its start to its exit
SpecShutdown == Init /\ [][NextShutdown]_vars

\* ------------------------------------- push fabric, lock by lock (SpecLock)
\* Manager.Start and Manager.SendMessage statement by statement, with the
\* RWMutex: a goroutine that holds RLock is reading Manager.clients, one that
\* holds Lock is writing it, and a sender between the start and the end of
\* its delete(m.clients, userID) is writing it with no lock held
MapRace ==
    \E g \in SenderIds :
       /\ snd[g].pc = "deleting"
       /\ \/ mutex.writer # "none"
          \/ mutex.readers # {}
          \/ \E h \in SenderIds \ {g} : snd[h].pc = "deleting"

\* Manager.Start, case client := <-m.register: the receive lets
\* HandleWebSocket go on, which starts writePump and readPump
Start_register_Recv(c) ==
    /\ ~crashed
    /\ start.pc = "select"
    /\ conns[c].pc = "register"
    /\ start' = [pc |-> "register", client |-> c]
    /\ conns' = [conns EXCEPT ![c].pc = "running", ![c].writer = "running"]
    /\ UNCHANGED <<clients, crashed, sent, mutex, snd, matchVars>>

\* m.mutex.Lock() of either case of Manager.Start
Start_Lock ==
    /\ ~crashed
    /\ start.pc \in {"register", "unregister"}
    /\ mutex.writer = "none"
    /\ mutex.readers = {}
    /\ mutex' = [mutex EXCEPT !.writer = "Start"]
    /\ start' = [start EXCEPT !.pc = IF start.pc = "register" THEN "registerLocked"
                                     ELSE "unregisterLocked"]
    /\ UNCHANGED <<clients, conns, crashed, sent, snd, matchVars>>

\* m.clients[client.ID] = client; m.mutex.Unlock()
Start_register_Unlock ==
    /\ ~crashed
    /\ start.pc = "registerLocked"
    /\ clients' = [clients EXCEPT ![conns[start.client].ID] = start.client]
    /\ mutex' = [mutex EXCEPT !.writer = "none"]
    /\ start' = [pc |-> "select", client |-> 0]
    /\ UNCHANGED <<conns, crashed, sent, snd, matchVars>>

\* Manager.Start, case client := <-m.unregister, and the c.conn.Close() of
\* readPump's deferred function that follows the hand-over
Start_unregister_Recv(c) ==
    /\ ~crashed
    /\ start.pc = "select"
    /\ conns[c].pc = "unregister"
    /\ start' = [pc |-> "unregister", client |-> c]
    /\ conns' = [conns EXCEPT ![c].pc = "done", ![c].conn = "closed"]
    /\ UNCHANGED <<clients, crashed, sent, mutex, snd, matchVars>>

\* if _, exists := m.clients[client.ID]; exists { delete; close(client.send) };
\* m.mutex.Unlock()
Start_unregister_Unlock ==
    /\ ~crashed
    /\ start.pc = "unregisterLocked"
    /\ LET c == start.client
       IN IF clients[conns[c].ID] # 0
          THEN /\ clients' = [clients EXCEPT ![conns[c].ID] = 0]
               /\ IF conns[c].send = "closed"
                  THEN crashed' = TRUE /\ UNCHANGED conns
                  ELSE conns' = [conns EXCEPT ![c].send = "closed"] /\ UNCHANGED crashed
          ELSE UNCHANGED <<clients, conns, crashed>>
    /\ mutex' = [mutex EXCEPT !.writer = "none"]
    /\ start' = [pc |-> "select", client |-> 0]
    /\ UNCHANGED <<sent, snd, matchVars>>

\* SendMessage: m.mutex.RLock()
SendMessage_RLock(g, userID) ==
    /\ ~crashed
    /\ snd[g].pc = "idle"
    /\ mutex.writer = "none"
    /\ mutex' = [mutex EXCEPT !.readers = @ \cup {g}]
    /\ snd' = [snd EXCEPT ![g] = [pc |-> "rlocked", userID |-> userID, client |-> 0]]
    /\ UNCHANGED <<clients, conns, crashed, sent, start, matchVars>>

\* SendMessage: client, exists := m.clients[userID]; m.mutex.RUnlock(); the
\* call returns nil when there is no client
SendMessage_RUnlock(g) ==
    /\ ~crashed
    /\ snd[g].pc = "rlocked"
    /\ mutex' = [mutex EXCEPT !.readers = @ \ {g}]
    /\ snd' = [snd EXCEPT ![g] = IF clients[snd[g].userID] = 0 THEN IdleSender
                                 ELSE [@ EXCEPT !.pc = "select",
                                                !.client = clients[snd[g].userID]]]
    /\ UNCHANGED <<clients, conns, crashed, sent, start, matchVars>>

\* SendMessage: select { case client.send <- data: ... default: ... }
SendMessage_Select(g) ==
    /\ ~crashed
    /\ snd[g].pc = "select"
    /\ LET c == snd[g].client
       IN IF conns[c].send = "closed"
          THEN \* send on a closed channel
               /\ crashed' = TRUE
               /\ UNCHANGED <<conns, snd>>
          ELSE IF ~conns[c].full
          THEN /\ \E fills \in BOOLEAN : conns' = [conns EXCEPT ![c].full = fills]
               /\ snd' = [snd EXCEPT ![g] = IdleSender]
               /\ UNCHANGED crashed
          ELSE /\ snd' = [snd EXCEPT ![g].pc = "close"]
               /\ UNCHANGED <<conns, crashed>>
    /\ UNCHANGED <<clients, sent, mutex, start, matchVars>>

\* SendMessage, default branch: close(client.send)
SendMessage_Close(g) ==
    /\ ~crashed
    /\ snd[g].pc = "close"
    /\ LET c == snd[g].client
       IN IF conns[c].send = "closed"
          THEN \* close of a closed channel
               /\ crashed' = TRUE
               /\ UNCHANGED <<conns, snd>>
          ELSE /\ conns' = [conns EXCEPT ![c].send = "closed"]
               /\ snd' = [snd EXCEPT ![g].pc = "delete"]
               /\ UNCHANGED crashed
    /\ UNCHANGED <<clients, sent, mutex, start, matchVars>>

\* SendMessage, default branch: delete(m.clients, userID) begins; no lock is
\* taken for it
SendMessage_Delete(g) ==
    /\ ~crashed
    /\ snd[g].pc = "delete"
    /\ snd' = [snd EXCEPT ![g].pc = "deleting"]
    /\ UNCHANGED <<clients, conns, crashed, sent, mutex, start, matchVars>>

\* SendMessage, default branch: the delete is done and the call returns nil
SendMessage_DeleteDone(g) ==
    /\ ~crashed
    /\ snd[g].pc = "deleting"
    /\ clients' = [clients EXCEPT ![snd[g].userID] = 0]
    /\ snd' = [snd EXCEPT ![g] = IdleSender]
    /\ UNCHANGED <<conns, crashed, sent, mutex, start, matchVars>>

\* the Go runtime finds the map written while it is read or written by
\* another goroutine and throws "concurrent map writes" / "concurrent map read
\* and map write"; it may also find nothing, and the run goes on
mapaccess_Fatal ==
    /\ ~crashed
    /\ MapRace
    /\ crashed' = TRUE
    /\ UNCHANGED <<clients, conns, sent, mutex, start, snd, matchVars>>

NextLock ==
    \/ \E u \in Users : HandleWebSocket(u)
    \/ \E c \in ClientIds : Start_register_Recv(c)
    \/ Start_Lock
    \/ Start_register_Unlock
    \/ \E c \in ClientIds : readPump_Error(c)
    \/ \E c \in ClientIds : Start_unregister_Recv(c)
    \/ Start_unregister_Unlock
    \/ \E c \in ClientIds : writePump_Write(c)
    \/ \E c \in ClientIds : writePump_Return(c)
    \/ \E g \in SenderIds, u \in Users : SendMessage_RLock(g, u)
    \/ \E g \in SenderIds : SendMessage_RUnlock(g)
    \/ \E g \in SenderIds : SendMessage_Select(g)
    \/ \E g \in SenderIds : SendMessage_Close(g)
    \/ \E g \in SenderIds : SendMessage_Delete(g)
    \/ \E g \in SenderIds : SendMessage_DeleteDone(g)
    \/ mapaccess_Fatal

\* the push fabric with its lock and two concurrent callers of SendMessage
SpecLock == Init /\ [][NextLock]_vars

\* ------------------------------------------------ hold keys and the clock
\* one tick of the store's clock: every hold key loses one tick of its time
\* to live, and a key that has none left is gone, a set with all its members
Tick ==
    /\ \/ \E l \in Langs : ttl.set[l] > 0
       \/ \E u \in Users : ttl.data[u] > 0
    /\ ttl' = [set  |-> [l \in Langs |-> IF ttl.set[l] > 0 THEN ttl.set[l] - 1 ELSE 0],
               data |-> [u \in Users |-> IF ttl.data[u] > 0 THEN ttl.data[u] - 1 ELSE 0]]
    /\ holdSet' = [l \in Langs |-> IF ttl.set[l] = 1 THEN {} ELSE holdSet[l]]
    /\ holdData' = [u \in Users |-> IF ttl.data[u] = 1 THEN NoEntry ELSE holdData[u]]
    /\ trouble' = (trouble \/ holdSet' # holdSet \/ holdData' # holdData)
    /\ rt' = NoTrip
    /\ UNCHANGED <<queue, usersData, topic, active, wk, req, sessions, clock,
                   nFail, nDisturb, cancelled, restores>>
    /\ UNCHANGED pushVars

\* two instances of the service, no store error and no cancel; the hold keys
\* run out by the clock only
NextExpiry ==
    \/ \E r \in Requests : InitiateMatchmaking(r[1], r[2], r[3])
    \/ \E w \in WorkerIds : findMatch(w)
    \/ \E w \in WorkerIds : putUserOnHold_LPop(w)
    \/ \E w \in WorkerIds : putUserOnHold_LPush(w)
    \/ \E w \in WorkerIds : putUserOnHold_HGet(w)
    \/ \E w \in WorkerIds : putUserOnHold_Exec(w)
    \/ \E w \in WorkerIds : initializeSession(w)
    \/ \E w \in WorkerIds : releaseUserFromHold(w)
    \/ Tick

SpecExpiry == InitMulti /\ [][NextExpiry]_vars

\* --------------------------------------------- the store without failures
\* two instances of the service; every store command succeeds and no hold
\* key reaches its TTL; the session store may fail, and users cancel and
\* come back
NextReliable ==
    \/ \E r \in Requests : InitiateMatchmaking(r[1], r[2], r[3])
    \/ \E r \in Requests : InitiateMatchmaking_Purge(r[1], r[2], r[3])
    \/ \E u \in Users : InitiateMatchmaking_Write(u)
    \/ \E u \in Users : CancelMatchmaking(u)
    \/ \E w \in WorkerIds : findMatch(w)
    \/ \E w \in WorkerIds : putUserOnHold_LPop(w)
    \/ \E w \in WorkerIds : putUserOnHold_LPush(w)
    \/ \E w \in WorkerIds : putUserOnHold_HGet(w)
    \/ \E w \in WorkerIds : putUserOnHold_Exec(w)
    \/ \E w \in WorkerIds : initializeSession(w)
    \/ \E w \in WorkerIds : initializeSession_Fails(w)
    \/ \E w \in WorkerIds : releaseUserFromHold(w)
    \/ \E w \in WorkerIds : restoreUserFromHold_HGet(w)
    \/ \E w \in WorkerIds : restoreUserFromHold_SRem(w)
    \/ \E w \in WorkerIds : restoreUserFromHold_Exec(w)

SpecReliable == InitMulti /\ [][NextReliable]_vars

\* ------------------------------------------ the channel loop of a worker
\* a payload that json.Unmarshal rejects
Malformed == [user |-> "?", native |-> "?", practice |-> "?", ts |-> 0]

\* some client of the store publishes a payload that is not a queue entry
PublishMalformed(l) ==
    /\ nDisturb < MaxDisturbances
    /\ nDisturb' = nDisturb + 1
    /\ trouble' = TRUE
    /\ topic' = Publish(topic, l, Malformed)
    /\ rt' = NoTrip
    /\ UNCHANGED <<store, active, wk, req, sessions, clock, nFail, cancelled,
                   restores>>
    /\ UNCHANGED <<pushVars, ttl>>

\* the channel loop that ends at a payload it cannot read
listenToLanguageChannel_MalformedReturns(w) ==
    /\ w \in active
    /\ wk[w].pc = "idle"
    /\ topic[w] # <<>>
    /\ Head(topic[w]) = Malformed
    /\ topic' = [topic EXCEPT ![w] = Tail(@)]
    /\ active' = active \ {w}
    /\ rt' = NoTrip
    /\ UNCHANGED <<store, wk, req, sessions, clock, nFail, nDisturb, cancelled,
                   trouble, restores>>
    /\ UNCHANGED <<pushVars, ttl>>

\* listenToLanguageChannel: json.Unmarshal fails, the error is logged and
\* the loop continues with the next message
listenToLanguageChannel_Malformed(w) ==
    /\ w \in active
    /\ wk[w].pc = "idle"
    /\ topic[w] # <<>>
    /\ Head(topic[w]) = Malformed
    /\ topic' = [topic EXCEPT ![w] = Tail(@)]
    /\ rt' = NoTrip
    /\ UNCHANGED <<store, active, wk, req, sessions, clock, nFail, nDisturb,
                   cancelled, trouble, restores>>
    /\ UNCHANGED <<pushVars, ttl>>

\* listenToLanguageChannel: the payload is a queue entry and processMessage
\* starts with findMatch
listenToLanguageChannel_Entry(w) ==
    /\ topic[w] # <<>>
    /\ Head(topic[w]) # Malformed
    /\ findMatch(w)

\* what a worker does next inside an event when the store answers
WorkerStep(w) ==
    \/ putUserOnHold_LPop(w)
    \/ putUserOnHold_LPush(w)
    \/ putUserOnHold_HGet(w)
    \/ putUserOnHold_Exec(w)
    \/ initializeSession(w)
    \/ initializeSession_Fails(w)
    \/ releaseUserFromHold(w)
    \/ restoreUserFromHold_HGet(w)
    \/ restoreUserFromHold_SRem(w)
    \/ restoreUserFromHold_Exec(w)

NextWorker ==
    \/ \E r \in Requests : InitiateMatchmaking(r[1], r[2], r[3])
    \/ \E r \in Requests : InitiateMatchmaking_Purge(r[1], r[2], r[3])
    \/ \E u \in Users : InitiateMatchmaking_Write(u)
    \/ \E u \in Users : CancelMatchmaking(u)
    \/ \E l \in Langs : PublishMalformed(l)
    \/ \E w \in WorkerIds : listenToLanguageChannel_Malformed(w)
    \/ \E w \in WorkerIds : listenToLanguageChannel_Entry(w)
    \/ \E w \in WorkerIds : putUserOnHold_LPop(w)
    \/ \E w \in WorkerIds : putUserOnHold_LPush(w)
    \/ \E w \in WorkerIds : putUserOnHold_LPushFails(w)
    \/ \E w \in WorkerIds : putUserOnHold_HGet(w)
    \/ \E w \in WorkerIds : putUserOnHold_Exec(w)
    \/ \E w \in WorkerIds : putUserOnHold_ExecFails(w)
    \/ \E l \in Langs : ExpireHoldSet(l)
    \/ \E u \in Users : ExpireHoldData(u)
    \/ \E w \in WorkerIds : initializeSession(w)
    \/ \E w \in WorkerIds : initializeSession_Fails(w)
    \/ \E w \in WorkerIds : releaseUserFromHold(w)
    \/ \E w \in WorkerIds : releaseUserFromHold_Fails(w)
    \/ \E w \in WorkerIds : restoreUserFromHold_HGet(w)
    \/ \E w \in WorkerIds : restoreUserFromHold_SRem(w)
    \/ \E w \in WorkerIds : restoreUserFromHold_Exec(w)
    \/ \E w \in WorkerIds : restoreUserFromHold_ExecFails(w)

SpecWorker == Init /\ [][NextWorker]_vars

TypeOK ==
    /\ clock \in 0..MaxAdmits
    /\ \A u \in Users : usersData[u] = NoEntry \/ usersData[u].user = u

\* ================================================================= claims
\* C1 (P1, uniqueness): in every reachable state each user id occurs at most
\* once across all language queues and all hold sets taken together; a user
\* id that is in a hold set is in no queue.
C1_Uniqueness == \A u \in Users : Occurrences(u) <= 1

\* the positions of a worker whose putUserOnHold has returned an entry
C2_Returned == {"create", "release", "restore", "restorePipe", "scrub"}
\* C2: the hold protocol hands a waiter to one matcher only: two matchers of
\* the same language never both come out of putUserOnHold with the same
\* waiter entry, and no waiter entry is the practice side of two sessions of
\* that language.
C2_HandedOutOnce ==
    /\ \A w1, w2 \in WorkerIds :
          ( /\ w1 # w2
            /\ LangOf(w1) = LangOf(w2)
            /\ wk[w1].pc \in C2_Returned
            /\ wk[w2].pc \in C2_Returned )
          => wk[w1].practiceEntry # wk[w2].practiceEntry
    /\ \A s, t \in sessions :
          (s.practiceEntry = t.practiceEntry /\ s.language = t.language) => s = t

\* C3: every committed session pairs two reciprocal participants: the
\* practice side's practice language is the native side's native language
\* and the practice side's native language is the native side's practice
\* language.
C3_Reciprocal ==
    \A s \in sessions :
        /\ s.practiceEntry.practice = s.nativeEntry.native
        /\ s.practiceEntry.native = s.nativeEntry.practice

\* C4 (P2, no self-match): in every committed session practice_user_id
\* differs from native_user_id, and a worker whose held head is the notifier
\* itself never goes on to create or release a session for it.
C4_NoSelfMatch ==
    /\ \A s \in sessions : s.practice_user_id # s.native_user_id
    /\ \A w \in WorkerIds :
          wk[w].pc \in {"create", "release"}
          => wk[w].practiceEntry.user # wk[w].nativeEntry.user

\* C5 (P3, language consistency): for every committed session with language
\* L the practice side's recorded practice language is L and the native
\* side's native language is L.
C5_LanguageConsistent ==
    \A s \in sessions :
        /\ s.practiceEntry.practice = s.language
        /\ s.nativeEntry.native = s.language

\* C6 (P4, FIFO per language): with no session-creation failure and no
\* cancellation, of two waiters practising the same language the one admitted
\* first is committed no later than the other: no session is committed for a
\* waiter while a waiter admitted earlier is still in the queue of that
\* language.
C6_Fifo == \A s \in sessions : s.untroubled => ~s.olderWaiting
\* a session was committed for the older of two waiters of one language
C6_Witness == \E s \in sessions : s.untroubled /\ s.youngerWaiting

\* C7 (P5, idempotent admission): when the second of two admissions of a
\* user completes, the user id is exactly once in the queue of the second
\* practice language, in no other queue, and the user-data entry records the
\* second admission.
C7_IdempotentAdmission ==
    [][\A u \in Users :
         (req[u] # NoEntry /\ req'[u] = NoEntry)
         => /\ OccursIn(queue', [l \in Langs |-> {}], u, Langs) = 1
            /\ Count(queue'[req[u].practice], u) = 1
            /\ usersData'[u].native = req[u].native
            /\ usersData'[u].practice = req[u].practice]_vars

\* C8 (P6, cancel safety): no session is committed with a user whose cancel
\* has returned as its practice side or as its native side, unless a matcher
\* was already past its pop for that user or for that user's message when
\* the cancel ran.
C8_CancelSafety ==
    \A s \in sessions : s.practiceCancel # "clean" /\ s.nativeCancel # "clean"

C10_Fresh ==
    /\ rt.before[2][rt.user] = NoEntry
    /\ \A l \in Langs : Count(rt.before[1][l], rt.user) = 0
AdmittedEntries ==
    ({usersData[u] : u \in Users} \ {NoEntry}) \cup {s.practiceEntry : s \in sessions}
\* every worker waits on an empty channel and no admission is in progress
Quiescent ==
    /\ \A w \in active : wk[w].pc = "idle" /\ topic[w] = <<>>
    /\ \A u \in Users : req[u] = NoEntry
\* the run of the happy path: u1{Spanish, English} then u2{English, Spanish},
\* nothing else, and all workers have finished
C11_HappyRun ==
    /\ ~trouble
    /\ clock = 2
    /\ AdmittedEntries =
          { [user |-> "u1", native |-> "Spanish", practice |-> "English", ts |-> 1],
            [user |-> "u2", native |-> "English", practice |-> "Spanish", ts |-> 2] }
    /\ Quiescent
\* C11 (happy path): after admitting u1{native=Spanish, practice=English} and
\* then u2{native=English, practice=Spanish} and letting all workers finish,
\* exactly one session (practice=u1, native=u2, language=English) exists, all
\* queues are empty, the user-data map is empty and no hold entry remains.
C11_HappyPath ==
    C11_HappyRun =>
        /\ Cardinality(sessions) = 1
        /\ \A s \in sessions : /\ s.practice_user_id = "u1"
                               /\ s.native_user_id = "u2"
                               /\ s.language = "English"
        /\ \A l \in Langs : queue[l] = <<>> /\ holdSet[l] = {}
        /\ \A u \in Users : usersData[u] = NoEntry /\ holdData[u] = NoEntry

\* the admissions a session row was made of
C12_Participants(s) == {s.practiceEntry, s.nativeEntry}
\* C12: after a session is committed neither participant is matched again
\* without a new admission: no two sessions contain the same admission of a
\* user, and once the worker is done with a session the admission of its
\* native side is no longer in the user-data map or in a queue.
C12_MatchedOnce ==
    /\ \A s, t \in sessions :
          s # t => C12_Participants(s) \cap C12_Participants(t) = {}
    /\ \A s \in sessions :
          (Quiescent /\ s.untroubled /\ ~trouble)
          => /\ usersData[s.native_user_id] # s.nativeEntry
             /\ usersData[s.practice_user_id] # s.practiceEntry

\* the run of the session-store failure: the two admissions of the happy
\* path, one failed session creation, nothing else, all workers finished
C13_FailOnceRun ==
    /\ nFail = 1
    /\ nDisturb = 0
    /\ clock = 2
    /\ AdmittedEntries =
          { [user |-> "u1", native |-> "Spanish", practice |-> "English", ts |-> 1],
            [user |-> "u2", native |-> "English", practice |-> "Spanish", ts |-> 2] }
    /\ Quiescent
\* C13 (session-store failure): when session creation fails once and then
\* succeeds, the practice waiter is restored to its queue after the failed
\* attempt and, when the workers have finished, exactly one session between
\* the two complementary waiters has been committed.
C13_FailOnceThenMatch ==
    C13_FailOnceRun =>
        /\ \A r \in restores : r.queuedAfter
        /\ Cardinality(sessions) = 1
        /\ \A s \in sessions :
              {s.practice_user_id, s.native_user_id} = {"u1", "u2"}

\* the SendMessage calls made for session s that are addressed to user to
\* and name partner as the partner, with the language of the session
C14_Notified(s, to, partner) ==
    \E r \in sent : /\ r.caller = s.id
                    /\ r.to = to
                    /\ r.data.Type = "match_found"
                    /\ r.data.PartnerID = partner
                    /\ r.data.Language = s.language
\* C14: on a committed match a match_found notification is addressed to the
\* practice user with the native user as partner, and one is addressed to
\* the native user with the practice user as partner, both carrying the
\* session language.
C14_BothNotified ==
    \A s \in sessions :
        /\ C14_Notified(s, s.practice_user_id, s.native_user_id)
        /\ C14_Notified(s, s.native_user_id, s.practice_user_id)

\* C15: a push delivery failure never undoes a match: when a send made for a
\* session found no bound channel or failed, the session is committed, the
\* worker goes on to release the practice waiter and does not restore it,
\* and a send was attempted to each of the two participants.
C15_PushFailureKeepsMatch ==
    \A s \in sessions :
        (\E r \in sent : r.caller = s.id /\ r.outcome # "queued")
        => /\ \A w \in WorkerIds :
                 ( /\ wk[w].practiceEntry = s.practiceEntry
                   /\ wk[w].nativeEntry = s.nativeEntry )
                 => wk[w].pc \notin {"restore", "restorePipe", "scrub"}
           /\ \A x \in {s.practice_user_id, s.native_user_id} :
                 \E r \in sent : r.caller = s.id /\ r.to = x

\* the clients of user u that have been registered and whose connection is
\* still open and being read
OpenChannels(u) ==
    {c \in ClientIds : conns[c].ID = u /\ conns[c].pc = "running" /\ conns[c].conn = "open"}

\* C16: at most one open push channel exists per user at any time: binding a
\* second channel for a user closes the first and leaves the new one as the
\* only registered channel of that user
C16_OneChannelPerUser ==
    \A u \in Users :
        /\ Cardinality(OpenChannels(u)) <= 1
        /\ OpenChannels(u) # {} => clients[u] \in OpenChannels(u)

\* C17: send(user_id, message) reports its outcome to the caller: it returns
\* no_receiver when no channel is bound for the user, and when the send fails
\* it returns send_failed and the channel is closed and removed from the
\* registry
C17_SendReportsOutcome ==
    \A m \in sent :
        /\ m.outcome = "no_client" => m.returned = "no_receiver"
        /\ m.outcome = "evicted" =>
              /\ m.returned = "send_failed"
              /\ m.evicted
              /\ ~m.sendOpen

\* C18: an admission whose native and practice languages are equal ignoring
\* case is rejected as Invalid (HTTP 400) and leaves the shared store
\* unchanged: no user-data is written, no queue is appended to and no topic
\* event is published
C18_EqualLanguagesRejected ==
    [][\A r \in ApiRequests :
          (EqualFold(r[2], r[3]) /\ StartMatchmaking(r[1], r[2], r[3]))
          => /\ rt'.phase = "responded"
             /\ rt'.status = 400
             /\ UNCHANGED <<store, topic>>]_vars

\* a request with the same language in two spellings was answered
C18_Witness ==
    /\ rt.phase = "responded"
    /\ rt.status = 400
    /\ rt.msg = "Native language and practice language cannot be the same"
    /\ \E u \in Users : usersData[u] # NoEntry

\* the strings that are the name or the short name of a catalog language
Resolving == {x \in QueueKeys : \E l \in Catalog : x \in {l.Name, l.ShortName}}

C22_GoneIn(st, u) ==
    /\ st[2][u] # NoEntry
    /\ OccursIn(st[1], st[3], u, Langs) = 0
    /\ st[4][u] = NoEntry
\* the hold of u has run out and no worker is still at work on u
C22_Expired(u) == C22_GoneIn(store, u) /\ ~Taken(u)
C23_DrainOnShutdown ==
    active = {} =>
        /\ \A w \in WorkerIds : wk[w].pc = "idle"
        /\ \A l \in Langs : holdSet[l] = {}
        /\ \A u \in Users : holdData[u] = NoEntry

\* C24: a notifier event that finds queue[L] empty, at the peek or at the
\* pop that follows it, produces no match and changes nothing: no session is
\* created, no notification is sent, and queues, user-data and hold entries
\* are unchanged; the worker is back at its channel
C24_EmptyQueueNoChange ==
    [][/\ \A w \in WorkerIds :
          ( /\ wk[w].pc = "idle"
            /\ topic[w] # <<>>
            /\ topic'[w] = Tail(topic[w])
            /\ queue[Head(topic[w]).native] = <<>> )
          => /\ UNCHANGED <<store, sessions, sent>>
             /\ wk'[w] = IdleWorker
       /\ \A w \in WorkerIds :
          ( /\ wk[w].pc = "pop"
            /\ wk'[w] # wk[w]
            /\ queue[wk[w].nativeEntry.native] = <<>> )
          => /\ UNCHANGED <<store, sessions, sent>>
             /\ wk'[w] = IdleWorker]_vars

\* the one admission of the run was announced, its event was taken by the
\* worker of its native language, whose queue was empty, and nothing came of it
C24_Witness ==
    /\ clock = 1
    /\ ~trouble
    /\ Quiescent
    /\ sessions = {}
    /\ sent = {}
    /\ \E u \in Users : usersData[u] # NoEntry /\ QueueOccurrences(u) = 1

\* C25: the session language of a match is the practice language of
\* whichever of the two matched users has been waiting in the queue longer:
\* in every committed session the practice-side user was admitted before the
\* native-side user
C25_LongerWaitingPractises ==
    \A s \in sessions : s.practiceEntry.ts < s.nativeEntry.ts

\* where the waiter u is in the store of queues q, hold sets hs and hold data
\* hd
C26_StateIn(q, hs, hd, u) ==
    LET queued == \E l \in Langs : Count(q[l], u) > 0
        held == (\E l \in Langs : u \in hs[l]) \/ hd[u] # NoEntry
    IN IF queued /\ held THEN "both"
       ELSE IF queued THEN "queued"
       ELSE IF held THEN "held"
       ELSE "gone"
\* C26: a waiter follows the specified state machine: it is in exactly one of
\* queued, held or gone at every moment, and the only transitions are admit
\* (gone to queued), cancel (queued to gone, the user-data deleted with it),
\* putOnHold (queued to held, only for the queue head), release (held to
\* gone) and restore (held to queued)
C26_StateMachine ==
    [][\A u \in Users :
          LET a == C26_StateIn(queue, holdSet, holdData, u)
              b == C26_StateIn(queue', holdSet', holdData', u)
          IN /\ b # "both"
             /\ a # b => <<a, b>> \in { <<"gone", "queued">>, <<"queued", "gone">>,
                                       <<"queued", "held">>, <<"held", "gone">>,
                                       <<"held", "queued">> }
             /\ (a = "queued" /\ b = "gone") => usersData'[u] = NoEntry
             /\ (a = "queued" /\ b = "held") =>
                   \E l \in Langs : queue[l] # <<>> /\ Head(queue[l]) = u]_vars

\* C27: whenever putUserOnHold fails after popping the head (the popped id is
\* not the expected one, the user-data is missing, or the hold batch fails),
\* the call returns with the popped id back at the head of the queue, the
\* other queued ids in their order, and no hold-set or hold-data entry
\* created
C27_FailedHoldPutsBack ==
    [][\A w \in WorkerIds :
          (wk[w].pc = "pushback" /\ wk'[w] = IdleWorker) =>
             LET language == wk[w].nativeEntry.native
             IN /\ queue'[language] # <<>>
                /\ Head(queue'[language]) = wk[w].userIDFromQueue
                /\ Tail(queue'[language]) = queue[language]
                /\ \A l \in QueueKeys \ {language} : queue'[l] = queue[l]
                /\ holdSet' = holdSet
                /\ holdData' = holdData]_vars

\* C28: releaseUserFromHold removes the user from the hold set, deletes the
\* hold data and deletes the user-data in one atomic step: a release step
\* either changes nothing in the store (the batch failed) or leaves the user
\* in no hold set entry of the language, without hold data, without user-data
\* and in no queue, the queues untouched
C28_ReleaseAtomic ==
    [][\A w \in WorkerIds :
          (wk[w].pc = "release" /\ wk'[w] # wk[w]) =>
             LET userID == wk[w].practiceEntry.user
                 language == wk[w].nativeEntry.native
             IN \/ store' = store
                \/ /\ userID \notin holdSet'[language]
                   /\ holdData'[userID] = NoEntry
                   /\ usersData'[userID] = NoEntry
                   /\ queue' = queue
                   /\ \A l \in QueueKeys : Count(queue'[l], userID) = 0]_vars
\* the same step without the requirement on the queues
C28_ReleaseRemovesThree ==
    [][\A w \in WorkerIds :
          (wk[w].pc = "release" /\ wk'[w] # wk[w]) =>
             LET userID == wk[w].practiceEntry.user
                 language == wk[w].nativeEntry.native
             IN \/ store' = store
                \/ /\ userID \notin holdSet'[language]
                   /\ holdData'[userID] = NoEntry
                   /\ usersData'[userID] = NoEntry
                   /\ queue' = queue]_vars

C31_CommitOrder ==
    [][/\ \A w \in WorkerIds :
             /\ (wk'[w].pc = "create" /\ wk[w].pc # "create") =>
                   /\ wk[w].pc = "hold"
                   /\ wk[w].userID \in holdSet'[wk[w].nativeEntry.native]
                   /\ holdData'[wk[w].userID] # NoEntry
             /\ (wk'[w].pc = "release" /\ wk[w].pc # "release") =>
                   /\ wk[w].pc = "create"
                   /\ \E row \in sessions' \ sessions :
                         /\ row.practice_user_id = wk[w].practiceEntry.user
                         /\ row.native_user_id = wk[w].nativeEntry.user
             /\ (wk'[w].pc = "restore" /\ wk[w].pc # "restore") =>
                   /\ wk[w].pc = "create"
                   /\ sessions' = sessions
                   /\ sent' = sent
             /\ (wk[w].pc = "release" /\ wk'[w] # wk[w]) => wk'[w] = IdleWorker
             /\ (wk[w].pc \in {"restore", "restorePipe", "scrub"} /\ wk'[w] # wk[w]) =>
                   wk'[w].pc \in {"idle", "restorePipe", "scrub"}
       /\ \A m \in sent' \ sent :
             /\ \E row \in sessions' : row.id = m.caller
             /\ \E w \in WorkerIds : wk[w].pc = "create" /\ wk'[w].pc = "release"
       /\ (sessions' # sessions) =>
             \E w \in WorkerIds : wk[w].pc = "create" /\ wk'[w].pc = "release"]_vars
\* one run has seen both paths to their end: a failed session creation with
\* its restore, and a committed session with its notifications and release
C31_Witness ==
    /\ sessions # {}
    /\ sent # {}
    /\ restores # {}
    /\ nFail = 1
    /\ \A w \in WorkerIds : wk[w].pc = "idle"
    /\ \A l \in Langs : holdSet[l] = {}

\* C32: the user-to-channel map is accessed under a readers-writer
\* discipline: a goroutine that is deleting from or inserting into the map
\* holds the write lock, so the map is never written while another goroutine
\* reads or writes it
C32_MapUnderLock ==
    /\ \A g \in SenderIds : snd[g].pc # "deleting"
    /\ start.pc \in {"registerLocked", "unregisterLocked"} => mutex.writer = "Start"
    /\ ~MapRace

\* C33: the hold-set entry and the hold-data entry of a held waiter exist
\* together: at every moment a user is a member of the hold set of some
\* language if and only if its hold data exists, also when several waiters
\* of one language are held at overlapping times
C33_HoldEntriesTogether ==
    \A u \in Users :
       (\E l \in Langs : u \in holdSet[l]) <=> (holdData[u] # NoEntry)

\* C34: correctness does not rely on the hold TTL: in every run without store
\* failures each hold taken by a worker is ended by that worker's own release
\* or restore before it takes the next event (the step that brings the worker
\* back to its channel leaves its waiter out of the hold set of its
\* language), and whenever no worker is in the middle of an event all hold
\* sets are empty and no hold data is left
C34_HoldsEndWithTheEvent ==
    /\ (\A w \in WorkerIds : wk[w].pc = "idle") =>
          /\ \A l \in Langs : holdSet[l] = {}
          /\ \A u \in Users : holdData[u] = NoEntry
    /\ \A l \in Langs : \A u \in holdSet[l] :
          \E w \in WorkerIds : /\ LangOf(w) = l
                               /\ wk[w].pc \in {"create", "release", "restore",
                                                "restorePipe", "scrub"}
                               /\ wk[w].practiceEntry.user = u
\* both ways out of a hold were taken and every worker is back at its channel
\* with nothing left to read: a session was committed and released, a failed
\* one was restored, and the hold keys are gone
C34_Witness ==
    /\ sessions # {}
    /\ \E r \in restores : r.hadHoldData /\ r.batchOk
    /\ \A w \in WorkerIds : wk[w].pc = "idle" /\ topic[w] = <<>>
    /\ \A l \in Langs : holdSet[l] = {}
    /\ \A u \in Users : holdData[u] = NoEntry
    /\ \A u \in Users : ttl.data[u] = 0

\* C35: a worker survives every per-event failure: after a malformed event,
\* an empty queue, a lost race or an inconsistent hold, or a failed session
\* creation, the worker is back at its channel with the events that were
\* waiting there, it stays subscribed, and it can take the next one; inside
\* an event its next step never waits for another worker, and no step of one
\* worker changes the position or the channel of another
C35_WorkerSurvives ==
    [][/\ active' = active
       /\ ~crashed'
       /\ \A w \in active :
             /\ (wk[w].pc # "idle" /\ wk'[w].pc = "idle") =>
                   wk'[w] = IdleWorker /\ topic'[w] = topic[w]
             /\ Len(topic'[w]) < Len(topic[w]) =>
                   /\ wk[w].pc = "idle"
                   /\ topic'[w] = Tail(topic[w])
                   /\ wk'[w].pc \in {"idle", "pop"}
             /\ wk'[w] # wk[w] =>
                   \A v \in active \ {w} : wk'[v] = wk[v] /\ topic'[v] = topic[v]
             /\ wk[w].pc # "idle" => ENABLED WorkerStep(w)
             /\ (wk[w].pc = "idle" /\ topic[w] # <<>>) =>
                   ENABLED (listenToLanguageChannel_Entry(w)
                               \/ listenToLanguageChannel_Malformed(w))]_vars
\* a worker has thrown a malformed event away, has then lost a session
\* creation and restored the waiter, and is back at its channel
C35_Witness ==
    /\ nDisturb = 1
    /\ nFail = 1
    /\ restores # {}
    /\ \A w \in WorkerIds : wk[w].pc = "idle" /\ topic[w] = <<>>
    /\ \A w \in WorkerIds : w[1] = 1 => w \in active
    /\ \A u \in Users : cancelled[u] = "no"
    /\ \A l \in Langs : holdSet[l] = {}
    /\ \E u \in Users : QueueOccurrences(u) = 1

\* C36: a successful admission of a waiter with native language N and
\* practice language P appends the waiter only to the queue keyed by P and
\* publishes exactly one event, on the topic keyed by N: the RPUSH step adds
\* the entry at the tail of queue P and leaves the other queues and every
\* channel alone, and the PUBLISH step hands one copy of the entry to each
\* subscriber of N and leaves the other channels and every queue alone
C36_AdmissionFrame ==
    [][\A u \in Users :
          /\ (req[u] = NoEntry /\ req'[u] # NoEntry) =>
                LET e == req'[u]
                IN /\ e.user = u
                   /\ queue'[e.practice] = Append(queue[e.practice], e)
                   /\ \A k \in QueueKeys \ {e.practice} : queue'[k] = queue[k]
                   /\ topic' = topic
          /\ (req[u] # NoEntry /\ req'[u] = NoEntry /\ rt'.phase = "admitted") =>
                LET e == req[u]
                IN /\ queue' = queue
                   /\ \A w \in WorkerIds :
                         topic'[w] = IF w \in active /\ LangOf(w) = e.native
                                     THEN Append(topic[w], e) ELSE topic[w]
                   /\ \E w \in active : LangOf(w) = e.native]_vars
\* an admission has just returned without error after another one: its entry
\* is the last of queue P and of the channel of N, and nowhere else
C36_Witness ==
    /\ rt.phase = "admitted"
    /\ rt.status = 201
    /\ ~trouble
    /\ clock = 2
    /\ \E w \in active :
          /\ topic[w] # <<>>
          /\ LET e == topic[w][Len(topic[w])]
             IN /\ e.user = rt.user
                /\ e.native = LangOf(w)
                /\ e.ts = 2
                /\ queue[e.practice] # <<>>
                /\ queue[e.practice][Len(queue[e.practice])] = e
                /\ \A k \in QueueKeys \ {e.practice} : e \notin Elements(queue[k])
                /\ \A v \in WorkerIds \ {w} : e \notin Elements(topic[v])

\* C37: when a user's push channel has been replaced by a newer one, the
\* later disconnect of the old channel does not remove or close the newer
\* one: the step that unregisters the old client leaves the user bound to
\* the newer client and leaves that client's send channel as it was
C37_OldDisconnectKeepsNewer ==
    [][\A c \in ClientIds :
          (conns[c].pc = "unregister" /\ conns'[c].pc = "done") =>
             LET userID == conns[c].ID
                 newer == clients[userID]
             IN (newer # 0 /\ newer # c) =>
                   /\ clients'[userID] = newer
                   /\ conns'[newer].send = conns[newer].send]_vars

\* C38: a client's outbound channel is closed at most once and nothing is
\* sent on it after it was closed, under every interleaving of SendMessage
\* with its eviction branch, unregister and concurrent senders: no goroutine
\* stands at its send on, or at its close of, a channel that is closed
C38_CloseOnceNoSendAfter ==
    /\ \A g \in SenderIds :
          snd[g].pc \in {"select", "close"} => conns[snd[g].client].send = "open"
    /\ (start.pc = "unregisterLocked" /\ clients[conns[start.client].ID] # 0) =>
          conns[start.client].send = "open"

\* C39: user-data and waiting state stay consistent: in every reachable state
\* the user-data of a user exists if and only if the user is in some queue
\* or in hold, so the head of a queue always has user-data
C39_UserDataConsistent ==
    /\ \A u \in Users :
          (usersData[u] # NoEntry) <=>
             \/ \E l \in Langs : Count(queue[l], u) > 0
             \/ \E l \in Langs : u \in holdSet[l]
             \/ holdData[u] # NoEntry
    /\ \A l \in Langs : queue[l] # <<>> => usersData[Head(queue[l])] # NoEntry

\* the admissions that ever took part in a committed session
C40_Admissions == UNION { {s.practiceEntry, s.nativeEntry} : s \in sessions }
\* C40: one admission leads to at most one session: for every user and every
\* admission of that user at most one committed session contains it, on
\* either side, also when the two events of a complementary pair are
\* processed by the two language workers at the same time.
C40_OneSessionPerAdmission ==
    \A u \in Users : \A e \in C40_Admissions :
       e.user = u =>
          Cardinality({ s \in sessions : e = s.practiceEntry \/ e = s.nativeEntry }) <= 1
\* each topic event creates at most one session: a step adds at most one
\* session, and the worker that added it is past the commit for that event
C40_EventCreatesOne ==
    [][ sessions' # sessions =>
          /\ Cardinality(sessions') = Cardinality(sessions) + 1
          /\ \E w \in DOMAIN wk : wk[w].pc = "create" /\ wk'[w].pc = "release" ]_vars

====
